---- MODULE Spec2Model ----
(***************************************************************************)
(* Windows Context Menu Creator: the registry entry lifecycle manager      *)
(* (app/registry_manager.py), the entry descriptor (app/config.py), the    *)
(* pre-flight checks (app/safety.py) and the console / HTTP callers        *)
(* (main.py, app/server.py).                                               *)
(*                                                                         *)
(* Strings that the code formats, splits or rewrites are sequences of      *)
(* tokens (<<"C:", "/", "Apps", "/", "Foo.exe">>), so that str.replace,    *)
(* str.format and str.split are computed, not assumed.  Registry key       *)
(* names are plain strings; a registry path is the sequence of its         *)
(* components, the hive first.                                             *)
(***************************************************************************)
EXTENDS Integers, Sequences, FiniteSets, TLC

VARIABLES
  reg,      \* the registry: existing key path |-> [dflt, icon] values
  admin,    \* what safety.is_admin() answers in this process
  dry_run,  \* RegistryManager.dry_run of the manager under test
  pre,      \* history: the registry when the last call started
  last,     \* history: the last call, its descriptor, its outcome
  reps,     \* history: consecutive calls of one operation on one descriptor
  calls,    \* history: number of calls made so far
  thr,      \* the store calls in flight, one per caller, registry operation
            \* by registry operation
  gui       \* the desktop launcher (gui.py): its position, the clock, the
            \* server thread, the window's page, crash.log

vars == <<reg, admin, dry_run, pre, last, reps, calls, thr, gui>>

MaxCalls == 3

--------------------------------------------------------------------------
(* Python values *)

None == <<"<None>">>          \* Python None, where a str is optional
NoValue == <<"<unset>">>      \* a registry value that is not set
Truthy(s) == s # None /\ s # <<>>
Missing == <<"<missing>">>    \* an argument or body field that is not given
MissingList == <<Missing>>    \* the same, where a list of strings is expected

BS == "\\"
QUOTE == "\""

RECURSIVE Replace(_, _, _)
Replace(s, old, new) ==
  IF s = <<>> THEN <<>>
  ELSE <<IF Head(s) = old THEN new ELSE Head(s)>> \o Replace(Tail(s), old, new)

RECURSIVE IndexOf(_, _, _)
IndexOf(s, tok, from) ==
  IF from > Len(s) THEN 0
  ELSE IF s[from] = tok THEN from
  ELSE IndexOf(s, tok, from + 1)

--------------------------------------------------------------------------
(* config.py *)

ALL_FILES == "ALL_FILES"
DIRECTORY == "DIRECTORY"
DIR_BACKGROUND == "DIR_BACKGROUND"
EXTENSION == "EXTENSION"
TargetScope == {ALL_FILES, DIRECTORY, DIR_BACKGROUND, EXTENSION}

DefaultTemplate == <<QUOTE, "{exe_path}", QUOTE, " ", QUOTE, "{target}", QUOTE>>
DefaultScopes == <<ALL_FILES>>

SeqContains(s, x) == \E i \in DOMAIN s : s[i] = x

NormalizeExt(ext) == IF ext # <<>> /\ Head(ext) = "." THEN ext ELSE <<".">> \o ext

\* MenuEntry(...) : the dataclass constructor followed by __post_init__.
\* Answers [ok |-> FALSE, ...] when __post_init__ raises ValueError.
\* Arguments left out take the field defaults of the dataclass.
WithDefaults(f) ==
  [f EXCEPT
     !.command_template = IF @ = Missing THEN DefaultTemplate ELSE @,
     !.icon = IF @ = Missing THEN None ELSE @,
     !.scopes = IF @ = Missing THEN DefaultScopes ELSE @,
     !.extensions = IF @ = MissingList THEN <<>> ELSE @]

MenuEntry(f) ==
  LET g == WithDefaults(f) IN
  IF SeqContains(g.scopes, EXTENSION) /\ g.extensions = <<>>
  THEN [ok |-> FALSE, entry |-> g]
  ELSE [ok |-> TRUE,
        entry |-> [g EXCEPT
           !.exe_path = Replace(g.exe_path, "/", BS),
           !.icon = IF Truthy(g.icon) THEN Replace(g.icon, "/", BS) ELSE g.icon,
           !.extensions = [i \in DOMAIN g.extensions |-> NormalizeExt(g.extensions[i])]]]

RECURSIVE Format(_, _, _)
Format(template, exe, target) ==
  IF template = <<>> THEN <<>>
  ELSE (IF Head(template) = "{exe_path}" THEN exe
        ELSE IF Head(template) = "{target}" THEN <<target>>
        ELSE <<Head(template)>>) \o Format(Tail(template), exe, target)

build_command(entry, placeholder) ==
  Format(entry.command_template, Replace(entry.exe_path, "/", BS), placeholder)

--------------------------------------------------------------------------
(* The file system safety.py looks at *)

FooExe == <<"C:", BS, "Apps", BS, "Foo.exe">>
FooExeFwd == <<"C:", "/", "Apps", "/", "Foo.exe">>
GoneExe == <<"C:", BS, "Apps", BS, "Gone.exe">>
DummyExe == <<"C:", BS, "dummy.exe">>
AppsDir == <<"C:", BS, "Apps">>
Files == {FooExe}
Dirs == {AppsDir, <<>>}      \* Path("").resolve() is the working directory

Resolve(path) == Replace(path, "/", BS)

\* "" when the path passes, else the name of the exception raised
validate_exe_path(path) ==
  LET p == Resolve(path) IN
  IF p \notin Files \cup Dirs THEN "FileNotFoundError"
  ELSE IF p \notin Files THEN "FileNotFoundError"
  ELSE ""

validate_icon_path(path) ==
  IF path = None THEN ""
  ELSE LET cut == IndexOf(path, ",", 1)
           raw == IF cut = 0 THEN path ELSE SubSeq(path, 1, cut - 1)
           p == Resolve(raw)
       IN IF p \notin Files \cup Dirs THEN "FileNotFoundError"
          ELSE IF p \notin Files THEN "FileNotFoundError"
          ELSE ""

--------------------------------------------------------------------------
(* winreg, as registry_manager.py uses it *)

HKCR == <<"HKCR">>
HKCU == <<"HKCU">>

IsPrefix(p, q) == Len(p) <= Len(q) /\ SubSeq(q, 1, Len(p)) = p
Prefixes(p) == {SubSeq(p, 1, n) : n \in 1..Len(p)}
Subkeys(r, p) == {q \in DOMAIN r : Len(q) = Len(p) + 1 /\ IsPrefix(p, q)}

\* A key just created: no values, owned by the creating user.  A key owned
\* by the system grants an elevated process read access only
NoValues == [dflt |-> NoValue, icon |-> NoValue, own |-> "user"]

\* opening p for writing, or creating it, is refused (access denied): p
\* exists and is system-owned, or p is missing and would be created under a
\* system-owned key
Denied(r, p) ==
  LET there == {q \in Prefixes(p) : q \in DOMAIN r}
      deepest == CHOOSE q \in there : \A q2 \in there : Len(q2) <= Len(q)
  IN there # {} /\ r[deepest].own = "system"

\* winreg.CreateKeyEx: opens the key, creating it and every missing ancestor
CreateKeyEx(r, p) ==
  [q \in DOMAIN r \cup Prefixes(p) |-> IF q \in DOMAIN r THEN r[q] ELSE NoValues]

\* winreg.SetValueEx(key, "", ...) / SetValueEx(key, "Icon", ...)
SetDefault(r, p, v) == [r EXCEPT ![p].dflt = v]
SetIcon(r, p, v) == [r EXCEPT ![p].icon = v]

\* winreg.DeleteKey: FileNotFoundError on a missing key, PermissionError
\* (access denied) on a system-owned key and on a key that has subkeys,
\* else the key is gone
DeleteKey(r, p) ==
  IF p \notin DOMAIN r THEN [reg |-> r, err |-> "FileNotFoundError"]
  ELSE IF r[p].own = "system" THEN [reg |-> r, err |-> "PermissionError"]
  ELSE IF Subkeys(r, p) # {} THEN [reg |-> r, err |-> "PermissionError"]
  ELSE [reg |-> [q \in DOMAIN r \ {p} |-> r[q]], err |-> ""]

\* rf"{root}\{name}": the registry's path parser skips empty components, so
\* an empty name leaves the path of root itself
Join(root, name) == IF name = "" THEN root ELSE Append(root, name)

--------------------------------------------------------------------------
(* registry_manager.py *)

_SCOPE_ROOTS(scope) ==
  CASE scope = ALL_FILES -> HKCR \o <<"*", "shell">>
    [] scope = DIRECTORY -> HKCR \o <<"Directory", "shell">>
    [] scope = DIR_BACKGROUND -> HKCR \o <<"Directory", "Background", "shell">>

\* mutant: every scope gets the selected-item token
_SCOPE_PLACEHOLDER_AlwaysItem(scope) == "%1"

_SCOPE_PLACEHOLDER(scope) ==
  CASE scope = ALL_FILES -> "%1"
    [] scope = DIRECTORY -> "%V"
    [] scope = DIR_BACKGROUND -> "%V"
    [] scope = EXTENSION -> "%1"

\* rf"{ext}\shell"; an extension is the token sequence <<".", "txt">>
ExtName(ext) == IF Len(ext) = 2 THEN ext[1] \o ext[2] ELSE ext[1]
ExtRoot(ext) == HKCR \o <<ExtName(ext), "shell">>

\* The (root, placeholder) pairs the loops of add_entry / remove_entry visit,
\* in the order they visit them
RECURSIVE ExtTargets(_)
ExtTargets(exts) ==
  IF exts = <<>> THEN <<>>
  ELSE <<[root |-> ExtRoot(Head(exts)), ph |-> _SCOPE_PLACEHOLDER(EXTENSION)]>>
       \o ExtTargets(Tail(exts))

RECURSIVE Targets(_, _)
Targets(scopes, exts) ==
  IF scopes = <<>> THEN <<>>
  ELSE (IF Head(scopes) = EXTENSION THEN ExtTargets(exts)
        ELSE <<[root |-> _SCOPE_ROOTS(Head(scopes)),
                ph |-> _SCOPE_PLACEHOLDER(Head(scopes))]>>)
       \o Targets(Tail(scopes), exts)

\* mutant: the dry-run test of _write_entry left out
_write_entry_IgnoresDryRun(r, dry, root, entry, placeholder, icon) ==
  LET key_path == Join(root, entry.key_name)
      cmd_path == Join(key_path, "command")
      r1 == SetDefault(CreateKeyEx(r, key_path), key_path, entry.display_name)
      r2 == IF Truthy(icon) THEN SetIcon(r1, key_path, icon) ELSE r1
  IN [reg |-> SetDefault(CreateKeyEx(r2, cmd_path), cmd_path,
                         build_command(entry, placeholder)),
      err |-> ""]

_write_entry(r, dry, root, entry, placeholder, icon) ==
  LET key_path == Join(root, entry.key_name)
      cmd_path == Join(key_path, "command")
      command == build_command(entry, placeholder)
      r1 == SetDefault(CreateKeyEx(r, key_path), key_path, entry.display_name)
      r2 == IF Truthy(icon) THEN SetIcon(r1, key_path, icon) ELSE r1
      r3 == SetDefault(CreateKeyEx(r2, cmd_path), cmd_path, command)
  IN IF dry THEN [reg |-> r, err |-> ""]
     ELSE IF Denied(r, key_path) THEN [reg |-> r, err |-> "PermissionError"]
     ELSE IF Denied(r2, cmd_path) THEN [reg |-> r2, err |-> "PermissionError"]
     ELSE [reg |-> r3, err |-> ""]

\* mutant: FileNotFoundError is not caught
Swallow_Nothing(res) == res

\* except FileNotFoundError: log and go on; any other error propagates
Swallow(res) == IF res.err = "FileNotFoundError" THEN [res EXCEPT !.err = ""] ELSE res

\* mutant: only the command subkey is deleted
_delete_entry_KeepsKey(r, dry, root, key_name) ==
  IF dry THEN [reg |-> r, err |-> ""]
  ELSE Swallow(DeleteKey(r, Join(Join(root, key_name), "command")))

_delete_entry(r, dry, root, key_name) ==
  LET key_path == Join(root, key_name)
      cmd_path == Join(key_path, "command")
      d1 == Swallow(DeleteKey(r, cmd_path))
      d2 == Swallow(DeleteKey(d1.reg, key_path))
  IN IF dry THEN [reg |-> r, err |-> ""]
     ELSE IF d1.err # "" THEN d1
     ELSE d2

\* mutant: after a failed scope the remaining scopes are still written
RECURSIVE WriteAll_Continues(_, _, _, _)
WriteAll_Continues(r, dry, entry, targets) ==
  IF targets = <<>> THEN [reg |-> r, err |-> ""]
  ELSE LET w == _write_entry(r, dry, Head(targets).root, entry, Head(targets).ph, entry.icon)
           rest == WriteAll_Continues(w.reg, dry, entry, Tail(targets))
       IN IF w.err # "" THEN [reg |-> rest.reg, err |-> w.err] ELSE rest

RECURSIVE WriteAll(_, _, _, _)
WriteAll(r, dry, entry, targets) ==
  IF targets = <<>> THEN [reg |-> r, err |-> ""]
  ELSE LET w == _write_entry(r, dry, Head(targets).root, entry, Head(targets).ph, entry.icon)
       IN IF w.err # "" THEN w ELSE WriteAll(w.reg, dry, entry, Tail(targets))

RECURSIVE DeleteAll(_, _, _, _)
DeleteAll(r, dry, key_name, targets) ==
  IF targets = <<>> THEN [reg |-> r, err |-> ""]
  ELSE LET d == _delete_entry(r, dry, Head(targets).root, key_name)
       IN IF d.err # "" THEN d ELSE DeleteAll(d.reg, dry, key_name, Tail(targets))

\* mutant: the elevation check always passes
require_admin_Skipped(adm) == ""

require_admin(adm) == IF adm THEN "" ELSE "PermissionError"

add_entry(r, dry, adm, entry) ==
  IF require_admin(adm) # "" THEN [reg |-> r, err |-> require_admin(adm)]
  ELSE IF validate_exe_path(entry.exe_path) # ""
    THEN [reg |-> r, err |-> validate_exe_path(entry.exe_path)]
  ELSE IF validate_icon_path(entry.icon) # ""
    THEN [reg |-> r, err |-> validate_icon_path(entry.icon)]
  ELSE WriteAll(r, dry, entry, Targets(entry.scopes, entry.extensions))

remove_entry(r, dry, adm, entry) ==
  IF require_admin(adm) # "" THEN [reg |-> r, err |-> require_admin(adm)]
  ELSE DeleteAll(r, dry, entry.key_name, Targets(entry.scopes, entry.extensions))

\* the "[DRY-RUN] Would create / Would delete" lines a call logs, one per
\* scope path it gets to: none when the manager is not in dry-run mode,
\* none when a check before the loop over the scopes raises
dry_run_log(op, dry, adm, entry) ==
  LET targets == Targets(entry.scopes, entry.extensions)
  IN IF ~dry \/ require_admin(adm) # "" THEN <<>>
     ELSE IF op = "add" /\ (\/ validate_exe_path(entry.exe_path) # ""
                            \/ validate_icon_path(entry.icon) # "") THEN <<>>
     ELSE [i \in DOMAIN targets |->
             [would |-> IF op = "add" THEN "create" ELSE "delete",
              key |-> Join(targets[i].root, entry.key_name)]]

\* The order in which the registry enumerates subkey names
NameOrder == <<"App", "cmd", "command", "DropTarget", "Foo", "Tool">>

EnumKeys(r, root) == SelectSeq(NameOrder, LAMBDA n : Append(root, n) \in DOMAIN r)

\* mutant: a missing shell subtree raises
list_entries_RaisesWhenAbsent(r, scope, extension) ==
  IF scope = EXTENSION /\ extension = None THEN [err |-> "ValueError", list |-> <<>>]
  ELSE LET root == IF scope = EXTENSION THEN ExtRoot(extension) ELSE _SCOPE_ROOTS(scope)
       IN IF root \in DOMAIN r THEN [err |-> "", list |-> EnumKeys(r, root)]
          ELSE [err |-> "FileNotFoundError", list |-> <<>>]

\* list_entries: [err, list]; extension = None when the caller gives none
list_entries(r, scope, extension) ==
  IF scope = EXTENSION /\ extension = None THEN [err |-> "ValueError", list |-> <<>>]
  ELSE LET root == IF scope = EXTENSION THEN ExtRoot(extension) ELSE _SCOPE_ROOTS(scope)
       IN [err |-> "", list |-> IF root \in DOMAIN r THEN EnumKeys(r, root) ELSE <<>>]

NoDetails == [found |-> FALSE, display_name |-> None, icon |-> None, command |-> None]

read_entry_details(r, scope, key_name) ==
  IF scope = EXTENSION THEN NoDetails
  ELSE LET key_path == Join(_SCOPE_ROOTS(scope), key_name)
           cmd_path == Join(key_path, "command")
       IN IF key_path \notin DOMAIN r THEN NoDetails
          ELSE IF r[key_path].dflt = NoValue THEN NoDetails
          ELSE [found |-> TRUE,
                display_name |-> r[key_path].dflt,
                icon |-> IF r[key_path].icon = NoValue THEN None ELSE r[key_path].icon,
                command |-> IF cmd_path \in DOMAIN r /\ r[cmd_path].dflt # NoValue
                            THEN r[cmd_path].dflt ELSE None]

_WIN11_PARENT ==
  HKCU \o <<"Software", "Classes", "CLSID", "{86ca1aa0-34aa-4e8b-a509-50c905bae2a2}">>
_WIN11_CLSID == Append(_WIN11_PARENT, "InprocServer32")

is_classic_menu_forced(r) ==
  _WIN11_CLSID \in DOMAIN r /\ r[_WIN11_CLSID].dflt = <<>>

\* mutant: the flag key is created, its default value is not set
force_classic_menu_KeyOnly(r, dry) ==
  [reg |-> IF dry THEN r ELSE CreateKeyEx(r, _WIN11_CLSID), err |-> ""]

force_classic_menu(r, dry) ==
  [reg |-> IF dry THEN r
           ELSE SetDefault(CreateKeyEx(r, _WIN11_CLSID), _WIN11_CLSID, <<>>),
   err |-> ""]

\* mutant: a failure to delete the parent key propagates
restore_modern_menu_ParentRaises(r, dry) ==
  LET d1 == DeleteKey(r, _WIN11_CLSID)
      d2 == DeleteKey(d1.reg, _WIN11_PARENT)
  IN IF dry THEN [reg |-> r, err |-> ""]
     ELSE IF d1.err # "" THEN Swallow(d1)
     ELSE d2

restore_modern_menu(r, dry) ==
  LET d1 == DeleteKey(r, _WIN11_CLSID)
      d2 == DeleteKey(d1.reg, _WIN11_PARENT)
  IN IF dry THEN [reg |-> r, err |-> ""]
     ELSE IF d1.err # "" THEN Swallow(d1)
     ELSE [reg |-> d2.reg, err |-> ""]

--------------------------------------------------------------------------
(* The machine: registries the program can find at start *)

HiveKeys == {HKCR, HKCU, HKCU \o <<"Software">>, HKCU \o <<"Software", "Classes">>}

Key(path, dflt, icon) ==
  [p |-> path, v |-> [dflt |-> dflt, icon |-> icon, own |-> "user"]]
SysKey(path, dflt) ==
  [p |-> path, v |-> [dflt |-> dflt, icon |-> NoValue, own |-> "system"]]
MkReg(keys) ==
  LET paths == UNION {Prefixes(k.p) : k \in keys} \cup HiveKeys
  IN [q \in paths |-> IF \E k \in keys : k.p = q
                      THEN (CHOOSE k \in keys : k.p = q).v ELSE NoValues]

\* no shell subtree exists yet
RegBare == MkReg({})

\* entries other software left behind: a verb with a second child under
\* *\shell, a bare key without values under Directory\shell, an empty
\* Directory\Background\shell but for the system-owned verb cmd that
\* Windows ships there, and under the menu-style CLSID another child next
\* to an InprocServer32 whose default value names a DLL; the file type .py
\* is registered by its installer and system-owned
RegForeign == MkReg({
  Key(_SCOPE_ROOTS(ALL_FILES) \o <<"Tool">>, <<"Foreign Tool">>, NoValue),
  Key(_SCOPE_ROOTS(ALL_FILES) \o <<"Tool", "command">>, <<"tool.exe">>, NoValue),
  Key(_SCOPE_ROOTS(ALL_FILES) \o <<"Tool", "DropTarget">>, NoValue, NoValue),
  Key(_SCOPE_ROOTS(DIRECTORY) \o <<"App">>, NoValue, NoValue),
  Key(_SCOPE_ROOTS(DIR_BACKGROUND), NoValue, NoValue),
  SysKey(_SCOPE_ROOTS(DIR_BACKGROUND) \o <<"cmd">>, <<"@shell32.dll,-8506">>),
  SysKey(_SCOPE_ROOTS(DIR_BACKGROUND) \o <<"cmd", "command">>, <<"cmd.exe">>),
  SysKey(HKCR \o <<".py">>, <<"Python.File">>),
  Key(_WIN11_PARENT \o <<"ShellFolder">>, NoValue, NoValue),
  Key(_WIN11_CLSID, <<"shell32.dll">>, NoValue)})

InitRegs == {RegBare, RegForeign}

--------------------------------------------------------------------------
(* Inputs *)

TXT == <<".", "txt">>
PY == <<".", "py">>
MD == <<".", "md">>
Extensions == {TXT, PY, MD}
FooIcon == FooExeFwd \o <<",", "0">>

Args(k, d, x, t, i, s, e) ==
  [key_name |-> k, display_name |-> d, exe_path |-> x,
   command_template |-> t, icon |-> i, scopes |-> s, extensions |-> e]
Fields(k, d, x, i, s, e) == Args(k, d, x, Missing, i, s, e)

KeyNames == {"App", "Tool", ""}
ScopeLists == {<<>>, <<ALL_FILES>>, <<DIRECTORY, DIR_BACKGROUND>>, <<ALL_FILES, EXTENSION>>}
ExtLists == {<<>>, <<TXT, <<"py">>>>}

\* every key name, scope list and extension list with one payload, and
\* every payload for one key name
\* three scopes, the one that holds the system-owned verb in the middle
ThreeScopes == <<DIRECTORY, DIR_BACKGROUND, ALL_FILES>>

\* a template of the caller's own, without quotes
OpenTemplate == <<"{exe_path}", " ", "--open", " ", "{target}">>

\* an icon string whose comma is part of the file name, no index suffix:
\* no file of that name exists, C:\Apps\Foo.exe does
CommaIcon == FooExe \o <<",", "v2.ico">>

AddInputs ==
  {Fields(k, <<"Open A">>, FooExeFwd, None, s, e) :
     k \in KeyNames, s \in ScopeLists, e \in ExtLists}
  \cup
  {Fields("App", d, x, i, s, <<>>) :
     d \in {<<"Open A">>, <<"Open B">>}, x \in {FooExeFwd, GoneExe},
     i \in {None, FooIcon}, s \in {<<ALL_FILES>>, <<DIRECTORY, DIR_BACKGROUND>>}}
  \cup
  {Args("App", <<"Open B">>, FooExeFwd, OpenTemplate, i, <<DIRECTORY, DIR_BACKGROUND>>, <<>>) :
     i \in {<<>>, AppsDir, GoneExe \o <<",", "0">>, CommaIcon}}
  \cup
  {Fields("cmd", <<"Open A">>, FooExeFwd, None, ThreeScopes, <<>>)}

RemoveInputs ==
  {Fields(k, <<>>, DummyExe, None, s, e) :
     k \in KeyNames, s \in ScopeLists, e \in ExtLists}
  \cup
  {Fields("cmd", <<>>, DummyExe, None, ThreeScopes, <<>>)}

NoEntry == Args("", <<>>, <<>>, <<>>, None, <<>>, <<>>)

\* The callers that share the registry: the console (main.py) and the HTTP
\* server (server.py), each with a RegistryManager of its own
Workers == {"console", "server"}

\* a caller with no store call in flight and none made
Idle == [st |-> "idle", id |-> 0, op |-> "none", entry |-> NoEntry, todo |-> <<>>,
         done |-> <<>>, err |-> "", lost |-> FALSE, pre |-> <<>>, with |-> {}]

\* gui.py before launch(): no window, no server thread, an empty crash.log;
\* the clock counts ticks of 50 ms
NotLaunched == [pc |-> "launch", now |-> 0, deadline |-> 0, srv |-> "none",
                ready |-> FALSE, hit |-> FALSE, url |-> "none", log |-> {}]

\* A finished call or request: what was called, how it ended ("ok", or the
\* exception raised, or "cancelled" / "404"), the descriptor it was about,
\* the descriptors it constructed, the store calls it made
Call(op, res, entry, built, handed) ==
  [op |-> op, res |-> res, entry |-> entry, built |-> built, handed |-> handed]
Handed(fn, entry) == [fn |-> fn, entry |-> entry]

Outcome(err) == IF err = "" THEN "ok" ELSE err

--------------------------------------------------------------------------
(* State machine *)

Init ==
  /\ reg \in InitRegs
  /\ admin \in BOOLEAN
  /\ dry_run \in BOOLEAN
  /\ pre = reg
  /\ last = Call("none", "ok", NoEntry, <<>>, <<>>)
  /\ reps = 0
  /\ calls = 0
  /\ thr = [t \in Workers |-> Idle]
  /\ gui = NotLaunched

\* how many times in a row, this call included, the same operation has been
\* called on the same descriptor, every earlier one having succeeded
Repeat(op, entry) ==
  IF last.op = op /\ last.entry = entry /\ last.res = "ok" THEN reps + 1 ELSE 1

Step ==
  calls < MaxCalls /\ calls' = calls + 1 /\ pre' = reg /\ UNCHANGED <<admin, dry_run, thr, gui>>

\* manager.add_entry(MenuEntry(...))
ApiAdd ==
  \E f \in AddInputs :
    LET m == MenuEntry(f)
        a == add_entry(reg, dry_run, admin, m.entry)
    IN /\ Step
       /\ reg' = IF m.ok THEN a.reg ELSE reg
       /\ last' = IF m.ok
                  THEN Call("add", Outcome(a.err), m.entry, <<m.entry>>,
                            <<Handed("add_entry", m.entry)>>)
                  ELSE Call("add", "ValueError", m.entry, <<>>, <<>>)
       /\ reps' = Repeat("add", m.entry)

\* manager.remove_entry(MenuEntry(...))
ApiRemove ==
  \E f \in RemoveInputs :
    LET m == MenuEntry(f)
        d == remove_entry(reg, dry_run, admin, m.entry)
    IN /\ Step
       /\ reg' = IF m.ok THEN d.reg ELSE reg
       /\ last' = IF m.ok
                  THEN Call("remove", Outcome(d.err), m.entry, <<m.entry>>,
                            <<Handed("remove_entry", m.entry)>>)
                  ELSE Call("remove", "ValueError", m.entry, <<>>, <<>>)
       /\ reps' = Repeat("remove", m.entry)

\* manager.force_classic_menu()
ForceClassic ==
  LET c == force_classic_menu(reg, dry_run)
  IN /\ Step
     /\ reg' = c.reg
     /\ last' = Call("force", Outcome(c.err), NoEntry, <<>>, <<>>)
     /\ reps' = 0

\* manager.restore_modern_menu()
RestoreModern ==
  LET c == restore_modern_menu(reg, dry_run)
  IN /\ Step
     /\ reg' = c.reg
     /\ last' = Call("restore", Outcome(c.err), NoEntry, <<>>, <<>>)
     /\ reps' = 0

Next == ApiAdd \/ ApiRemove \/ ForceClassic \/ RestoreModern

Spec == Init /\ [][Next]_vars

--------------------------------------------------------------------------
(* main.py and server.py: the console and HTTP callers.  Both construct   *)
(* their manager with dry_run=False.                                      *)

NonExtScopes == <<ALL_FILES, DIRECTORY, DIR_BACKGROUND>>

RECURSIVE AppendNew(_, _)
AppendNew(acc, xs) ==
  IF xs = <<>> THEN acc
  ELSE AppendNew(IF SeqContains(acc, Head(xs)) THEN acc ELSE Append(acc, Head(xs)), Tail(xs))

\* all_keys: the names under the three non-extension scopes, first seen first
all_keys(r) ==
  AppendNew(AppendNew(AppendNew(<<>>, list_entries(r, ALL_FILES, None).list),
                      list_entries(r, DIRECTORY, None).list),
            list_entries(r, DIR_BACKGROUND, None).list)

\* [s for s in (ALL_FILES, DIRECTORY, DIR_BACKGROUND) if key_name in list_entries(s)]
ScopesHolding(r, key_name) ==
  SelectSeq(NonExtScopes, LAMBDA sc : SeqContains(list_entries(r, sc, None).list, key_name))

\* the picker of _interactive_remove and _interactive_edit: one numbered
\* row per key of all_keys, tagged with the scopes whose list holds it
picker(r) ==
  [i \in DOMAIN all_keys(r) |->
     [key_name |-> all_keys(r)[i], scopes |-> ScopesHolding(r, all_keys(r)[i])]]

_SCOPE_FROM_STR ==
  [all_files |-> ALL_FILES, directory |-> DIRECTORY,
   dir_background |-> DIR_BACKGROUND, extension |-> EXTENSION]

_SCOPE_TO_STR(scope) ==
  CHOOSE n \in DOMAIN _SCOPE_FROM_STR : _SCOPE_FROM_STR[n] = scope

\* the rows one scope adds to the listing: one for every name not seen yet,
\* its details read from this scope
RECURSIVE ListRows(_, _, _, _)
ListRows(r, result, scope, entries) ==
  IF entries = <<>> THEN result
  ELSE LET key_name == Head(entries)
           seen == \E i \in DOMAIN result : result[i].key_name = key_name
           held == ScopesHolding(r, key_name)
           details == read_entry_details(r, scope, key_name)
           row == [key_name |-> key_name,
                   display_name |-> IF details.found THEN details.display_name
                                    ELSE <<key_name>>,
                   icon |-> details.icon,
                   command |-> details.command,
                   scopes |-> [i \in DOMAIN held |-> _SCOPE_TO_STR(held[i])]]
       IN ListRows(r, IF seen THEN result ELSE Append(result, row), scope, Tail(entries))

\* mutant: a name is listed again for every scope that holds it
_handle_list_entries_PerScope(r) ==
  LET rows(s) == LET names == list_entries(r, s, None).list
                 IN [i \in DOMAIN names |->
                       [key_name |-> names[i], display_name |-> <<names[i]>>, icon |-> None,
                        command |-> None, scopes |-> <<_SCOPE_TO_STR(s)>>]]
  IN rows(ALL_FILES) \o rows(DIRECTORY) \o rows(DIR_BACKGROUND)

\* APIHandler._handle_list_entries: the JSON array of the response
_handle_list_entries(r) ==
  ListRows(r,
           ListRows(r,
                    ListRows(r, <<>>, ALL_FILES, list_entries(r, ALL_FILES, None).list),
                    DIRECTORY, list_entries(r, DIRECTORY, None).list),
           DIR_BACKGROUND, list_entries(r, DIR_BACKGROUND, None).list)

\* exe_path out of a stored command: between the first pair of quotes, or
\* the first blank-separated word
ParseExe(cmd) ==
  IF cmd # <<>> /\ Head(cmd) = QUOTE
  THEN LET close == IndexOf(cmd, QUOTE, 2)
       IN SubSeq(cmd, 2, IF close = 0 THEN Len(cmd) ELSE close - 1)
  ELSE IF cmd = <<>> THEN <<>>
  ELSE LET blank == IndexOf(cmd, " ", 1)
       IN IF blank = 0 THEN cmd ELSE SubSeq(cmd, 1, blank - 1)

scope_map == [n \in {"1", "2", "3", "4"} |->
  CASE n = "1" -> ALL_FILES [] n = "2" -> DIRECTORY
    [] n = "3" -> DIR_BACKGROUND [] n = "4" -> EXTENSION]

\* [scope_map[s] for s in scope_input.split(",") if s in scope_map]
PickScopes(scope_input) ==
  LET kept == SelectSeq(scope_input, LAMBDA n : n \in DOMAIN scope_map)
  IN [i \in DOMAIN kept |-> scope_map[kept[i]]]

\* _derive_app_name on the file names of this model: the stem, title-cased
_derive_app_name(exe_path) ==
  LET name == exe_path[Len(exe_path)]
  IN CASE name = "Foo.exe" -> "Foo" [] name = "Gone.exe" -> "Gone" [] OTHER -> name

ExeChoices ==
  {[manual |-> x, picked |-> None] : x \in {FooExeFwd, GoneExe}}
  \cup {[manual |-> <<>>, picked |-> x] : x \in {None, FooExeFwd}}
ScopeInputs == {<<>>, <<"1">>, <<"2", "3">>, <<"4">>, <<"1", "4">>, <<"9">>}
ExtInputs == {<<>>, <<<<"txt">>>>, <<<<"py">>>>}

ScopeBodies == {Missing, <<>>, <<"all_files">>, <<"directory", "dir_background">>,
                <<"extension">>, <<"bogus">>}
ExtBodies == {MissingList, <<<<"txt">>>>}
UrlKeys == {"App", "Tool", "Foo", ""}

MaxRequests == 2

Request ==
  /\ calls < MaxRequests /\ calls' = calls + 1 /\ pre' = reg /\ reps' = 0
  /\ UNCHANGED <<admin, dry_run, thr, gui>>

\* main(): choice "1"
ConsoleAdd ==
  \E x \in ExeChoices, key_in \in {"", "App"}, scope_input \in ScopeInputs,
     ext_input \in ExtInputs, cmd_template \in {<<>>} :
    LET exe_path == IF x.manual # <<>> THEN x.manual ELSE x.picked
        app_name == _derive_app_name(exe_path)
        key_name == IF key_in # "" THEN key_in ELSE app_name
        scopes == PickScopes(scope_input)
        m == MenuEntry(Args(key_name, <<"Open with ", app_name>>, exe_path,
                            IF cmd_template = <<>> THEN DefaultTemplate ELSE cmd_template,
                            exe_path \o <<",", "0">>, scopes, ext_input))
        a == add_entry(reg, dry_run, admin, m.entry)
    IN /\ Request
       /\ SeqContains(scopes, EXTENSION) \/ ext_input = <<>>
       /\ IF exe_path = None
          THEN reg' = reg /\ last' = Call("console_add", "exit", NoEntry, <<>>, <<>>)
          ELSE IF ~m.ok
          THEN reg' = reg /\ last' = Call("console_add", "ValueError", m.entry, <<>>, <<>>)
          ELSE /\ reg' = a.reg
               /\ last' = Call("console_add", Outcome(a.err), m.entry, <<m.entry>>,
                               <<Handed("add_entry", m.entry)>>)

\* APIHandler._handle_add_entry
HttpAdd ==
  \E key_name \in {"App", "", "<missing>"}, exe_path \in {FooExeFwd, GoneExe},
     scopes \in ScopeBodies, extensions \in ExtBodies,
     command_template \in {Missing, OpenTemplate} :
    LET names == IF scopes = Missing THEN <<"all_files">> ELSE scopes
        known == \A i \in DOMAIN names : names[i] \in DOMAIN _SCOPE_FROM_STR
        m == MenuEntry(Args(key_name, <<"Open A">>, exe_path,
                            IF command_template = Missing THEN DefaultTemplate
                            ELSE command_template, None,
                            [i \in DOMAIN names |-> _SCOPE_FROM_STR[names[i]]],
                            IF extensions = MissingList THEN <<>> ELSE extensions))
        a == add_entry(reg, dry_run, admin, m.entry)
    IN /\ Request
       /\ IF ~known \/ key_name = "<missing>"
          THEN reg' = reg /\ last' = Call("http_add", "KeyError", NoEntry, <<>>, <<>>)
          ELSE IF ~m.ok
          THEN reg' = reg /\ last' = Call("http_add", "ValueError", m.entry, <<>>, <<>>)
          ELSE /\ reg' = a.reg
               /\ last' = Call("http_add", Outcome(a.err), m.entry, <<m.entry>>,
                               <<Handed("add_entry", m.entry)>>)

\* a request about the key name of its URL for which no descriptor was built
NoSuch(key_name) == [NoEntry EXCEPT !.key_name = key_name]

\* mutant: the removers also name the Extension scope, with every extension
Removal_AlsoExtensions(key_name, display_name, exe_path, scopes) ==
  MenuEntry(Args(key_name, display_name, exe_path, Missing, Missing,
                 Append(scopes, EXTENSION), <<TXT, PY>>))

\* the descriptor both removers build for a listed key
Removal(key_name, display_name, exe_path, scopes) ==
  MenuEntry(Args(key_name, display_name, exe_path, Missing, Missing, scopes, MissingList))

\* main(): choice "2", _interactive_remove; choice 0 is "q", a bad number
\* or a refused confirmation
ConsoleRemove ==
  \E choice \in 0..Len(all_keys(reg)) :
    LET key_name == all_keys(reg)[choice]
        m == Removal(key_name, <<>>, DummyExe, ScopesHolding(reg, key_name))
        d == remove_entry(reg, dry_run, admin, m.entry)
    IN /\ Request
       /\ IF choice = 0
          THEN reg' = reg /\ last' = Call("console_remove", "cancelled", NoEntry, <<>>, <<>>)
          ELSE /\ reg' = d.reg
               /\ last' = Call("console_remove", Outcome(d.err), m.entry, <<m.entry>>,
                               <<Handed("remove_entry", m.entry)>>)

\* APIHandler._handle_remove_entry
HttpRemove ==
  \E key_name \in UrlKeys :
    LET scopes == ScopesHolding(reg, key_name)
        m == Removal(key_name, <<>>, DummyExe, scopes)
        d == remove_entry(reg, dry_run, admin, m.entry)
    IN /\ Request
       /\ IF scopes = <<>>
          THEN reg' = reg /\ last' = Call("http_remove", "404", NoSuch(key_name), <<>>, <<>>)
          ELSE /\ reg' = d.reg
               /\ last' = Call("http_remove", Outcome(d.err), m.entry, <<m.entry>>,
                               <<Handed("remove_entry", m.entry)>>)

\* APIHandler._handle_list_entries: GET, reads only
HttpList ==
  /\ Request
  /\ reg' = reg
  /\ last' = Call("http_list", "ok", NoEntry, <<>>, <<>>)

\* mutant: a failed re-add puts the registry back as it was before the edit
EditOutcome_RestoresOld(op, r, dry, adm, old, new_args) ==
  LET d == remove_entry(r, dry, adm, old.entry)
      n == MenuEntry(new_args)
      a == add_entry(d.reg, dry, adm, n.entry)
      removed == <<Handed("remove_entry", old.entry)>>
  IN IF d.err # ""
     THEN [reg |-> d.reg, call |-> Call(op, d.err, old.entry, <<old.entry>>, removed)]
     ELSE IF ~n.ok
     THEN [reg |-> r, call |-> Call(op, "ValueError", n.entry, <<old.entry>>, removed)]
     ELSE [reg |-> IF a.err # "" THEN r ELSE a.reg,
           call |-> Call(op, Outcome(a.err), n.entry, <<old.entry, n.entry>>,
                         Append(removed, Handed("add_entry", n.entry)))]

\* What an edit leaves behind: the old entry is removed, then the new one
\* is constructed and added; the first step that raises ends the request.
\* `checked` tells whether old and new descriptor were vetted beforehand.
EditOutcome(op, r, dry, adm, old, new_args) ==
  LET d == remove_entry(r, dry, adm, old.entry)
      n == MenuEntry(new_args)
      a == add_entry(d.reg, dry, adm, n.entry)
      removed == <<Handed("remove_entry", old.entry)>>
  IN IF d.err # ""
     THEN [reg |-> d.reg, call |-> Call(op, d.err, old.entry, <<old.entry>>, removed)]
     ELSE IF ~n.ok
     THEN [reg |-> d.reg, call |-> Call(op, "ValueError", n.entry, <<old.entry>>, removed)]
     ELSE [reg |-> a.reg,
           call |-> Call(op, Outcome(a.err), n.entry, <<old.entry, n.entry>>,
                         Append(removed, Handed("add_entry", n.entry)))]

\* main(): choice "4", _interactive_edit
ConsoleEdit ==
  \E choice \in 0..Len(all_keys(reg)), scope_input \in ScopeInputs, ext_input \in ExtInputs :
    LET key_name == all_keys(reg)[choice]
        current_scopes == ScopesHolding(reg, key_name)
        details == read_entry_details(reg, current_scopes[1], key_name)
        new_scopes == PickScopes(scope_input)
        cmd == IF details.command = None THEN <<>> ELSE details.command
        exe_path == ParseExe(cmd)
        old == Removal(key_name, details.display_name,
                       IF exe_path = <<>> THEN DummyExe ELSE exe_path, current_scopes)
        e == EditOutcome("console_edit", reg, dry_run, admin, old,
                         Args(key_name, details.display_name, exe_path, Missing,
                              details.icon, new_scopes, ext_input))
    IN /\ Request
       /\ SeqContains(new_scopes, EXTENSION) \/ ext_input = <<>>
       /\ IF \/ choice = 0
             \/ ~details.found
             \/ new_scopes = <<>>
             \/ (SeqContains(new_scopes, EXTENSION) /\ ext_input = <<>>)
          THEN reg' = reg /\ last' = Call("console_edit", "cancelled", NoEntry, <<>>, <<>>)
          ELSE reg' = e.reg /\ last' = e.call

\* APIHandler._handle_edit_entry
HttpEdit ==
  \E key_name \in UrlKeys, scopes \in ScopeBodies, extensions \in ExtBodies,
     exe_body \in {Missing, GoneExe} :
    LET current_scopes == ScopesHolding(reg, key_name)
        details == read_entry_details(reg, current_scopes[1], key_name)
        exe_path == ParseExe(details.command)
        old == Removal(key_name, details.display_name,
                       IF exe_path = <<>> THEN DummyExe ELSE exe_path, current_scopes)
        names == IF scopes = Missing THEN <<>> ELSE scopes
        known == \A i \in DOMAIN names : names[i] \in DOMAIN _SCOPE_FROM_STR
        d == remove_entry(reg, dry_run, admin, old.entry)
        e == EditOutcome("http_edit", reg, dry_run, admin, old,
                         Args(key_name, details.display_name,
                              IF exe_body = Missing THEN exe_path ELSE exe_body,
                              Missing, details.icon,
                              [i \in DOMAIN names |-> _SCOPE_FROM_STR[names[i]]],
                              IF extensions = MissingList THEN <<>> ELSE extensions))
    IN /\ Request
       /\ IF current_scopes = <<>> \/ ~details.found
          THEN reg' = reg /\ last' = Call("http_edit", "404", NoSuch(key_name), <<>>, <<>>)
          ELSE IF details.command = None
          THEN reg' = reg /\ last' = Call("http_edit", "AttributeError", NoSuch(key_name), <<>>, <<>>)
          ELSE IF d.err = "" /\ ~known
          THEN /\ reg' = d.reg
               /\ last' = Call("http_edit", "KeyError", old.entry, <<old.entry>>,
                               <<Handed("remove_entry", old.entry)>>)
          ELSE reg' = e.reg /\ last' = e.call

NextCallers ==
  ConsoleAdd \/ HttpAdd \/ ConsoleRemove \/ HttpRemove \/ ConsoleEdit \/ HttpEdit
    \/ HttpList

InitCallers == Init /\ ~dry_run

SpecCallers == InitCallers /\ [][NextCallers]_vars

--------------------------------------------------------------------------
(* Two callers on one registry.  No lock is taken in registry_manager.py:  *)
(* a call of one caller is a sequence of winreg operations, and the        *)
(* operations of two calls interleave.                                     *)

RegStep(fn, path, name, value, skip) ==
  [fn |-> fn, path |-> path, name |-> name, value |-> value, skip |-> skip]

\* mutant: the command subkey is created, its default value is not set
_write_entry_steps_NoCommand(root, entry, placeholder, icon) ==
  LET key_path == Join(root, entry.key_name)
  IN <<RegStep("CreateKeyEx", key_path, "", <<>>, {}),
       RegStep("SetValueEx", key_path, "", entry.display_name, {}),
       RegStep("CreateKeyEx", Join(key_path, "command"), "", <<>>, {})>>

\* the winreg operations of _write_entry, in program order
_write_entry_steps(root, entry, placeholder, icon) ==
  LET key_path == Join(root, entry.key_name)
      cmd_path == Join(key_path, "command")
  IN <<RegStep("CreateKeyEx", key_path, "", <<>>, {}),
       RegStep("SetValueEx", key_path, "", entry.display_name, {})>>
     \o (IF Truthy(icon) THEN <<RegStep("SetValueEx", key_path, "Icon", icon, {})>> ELSE <<>>)
     \o <<RegStep("CreateKeyEx", cmd_path, "", <<>>, {}),
          RegStep("SetValueEx", cmd_path, "", build_command(entry, placeholder), {})>>

\* mutant: the entry key is deleted before its command child
_delete_entry_steps_KeyFirst(root, key_name) ==
  <<RegStep("DeleteKey", Join(root, key_name), "", <<>>, {"FileNotFoundError"}),
    RegStep("DeleteKey", Join(Join(root, key_name), "command"), "", <<>>,
            {"FileNotFoundError"})>>

\* the winreg operations of _delete_entry, in program order
_delete_entry_steps(root, key_name) ==
  LET key_path == Join(root, key_name)
      cmd_path == Join(key_path, "command")
  IN <<RegStep("DeleteKey", cmd_path, "", <<>>, {"FileNotFoundError"}),
       RegStep("DeleteKey", key_path, "", <<>>, {"FileNotFoundError"})>>

RECURSIVE add_entry_steps(_, _)
add_entry_steps(entry, targets) ==
  IF targets = <<>> THEN <<>>
  ELSE _write_entry_steps(Head(targets).root, entry, Head(targets).ph, entry.icon)
       \o add_entry_steps(entry, Tail(targets))

RECURSIVE remove_entry_steps(_, _)
remove_entry_steps(key_name, targets) ==
  IF targets = <<>> THEN <<>>
  ELSE _delete_entry_steps(Head(targets).root, key_name)
       \o remove_entry_steps(key_name, Tail(targets))

\* mutant: no except clause catches
Caught_Never(step, err) == FALSE

\* the except clause around the operation catches the exception
Caught(step, err) == err \in step.skip

\* One winreg operation on the registry.  `lost` tells that the key behind
\* the caller's open handle has been deleted since the handle was opened:
\* SetValueEx on it fails (ERROR_KEY_DELETED, an OSError)
RegOp(r, step, lost) ==
  CASE step.fn = "CreateKeyEx" ->
         IF Denied(r, step.path) THEN [reg |-> r, err |-> "PermissionError"]
         ELSE [reg |-> CreateKeyEx(r, step.path), err |-> ""]
    [] step.fn = "SetValueEx" ->
         IF lost \/ step.path \notin DOMAIN r THEN [reg |-> r, err |-> "OSError"]
         ELSE [reg |-> IF step.name = "Icon" THEN SetIcon(r, step.path, step.value)
                       ELSE SetDefault(r, step.path, step.value),
               err |-> ""]
    [] step.fn = "DeleteKey" ->
         LET d == DeleteKey(r, step.path)
         IN IF Caught(step, d.err) THEN [d EXCEPT !.err = ""] ELSE d

\* the key a caller holds an open handle on: inside a `with CreateKeyEx`
\* block, between the creation and the last SetValueEx
HandleOf(w) ==
  IF w.st = "running" /\ w.todo # <<>> /\ Head(w.todo).fn = "SetValueEx"
  THEN Head(w.todo).path ELSE <<>>

ConcAdds ==
  {Fields("App", <<"Open A">>, FooExeFwd, None, <<ALL_FILES>>, <<>>),
   Fields("App", <<"Open B">>, FooExeFwd, FooIcon, <<ALL_FILES>>, <<>>),
   Fields("App", <<"Open A">>, FooExeFwd, None, <<DIRECTORY, DIR_BACKGROUND>>, <<>>)}
ConcRemoves ==
  {Fields(k, <<>>, DummyExe, None, s, <<>>) :
     k \in {"App", "Tool"}, s \in {<<ALL_FILES>>, <<DIRECTORY, DIR_BACKGROUND>>}}

MaxRuns == 2

\* the id-th call made, as the calls it overlaps remember it
Overlap(id, op, entry) ==
  [id |-> id, op |-> op, key_name |-> entry.key_name, scopes |-> entry.scopes]

\* caller t enters a store call: the elevation check and the path checks,
\* which touch no key, are done; the winreg operations are still to come
Begin(t, op, entry, err, steps) ==
  /\ calls < MaxRuns /\ calls' = calls + 1
  /\ thr[t].st # "running"
  /\ thr' = [u \in Workers |->
       IF u = t
       THEN [st |-> IF err # "" THEN "raised" ELSE IF steps = <<>> THEN "returned" ELSE "running",
             id |-> calls + 1, op |-> op, entry |-> entry,
             todo |-> IF err # "" THEN <<>> ELSE steps, done |-> <<>>,
             err |-> err, lost |-> FALSE, pre |-> reg,
             with |-> {Overlap(thr[v].id, thr[v].op, thr[v].entry) :
                         v \in {v \in Workers \ {t} : thr[v].st = "running"}}]
       ELSE IF thr[u].st = "running" /\ err = "" /\ steps # <<>>
       THEN [thr[u] EXCEPT !.with = @ \cup {Overlap(calls + 1, op, entry)}]
       ELSE thr[u]]
  /\ UNCHANGED <<reg, admin, dry_run, pre, last, reps, gui>>

\* add_entry up to its first winreg operation
BeginAdd(t) ==
  \E f \in ConcAdds :
    LET entry == MenuEntry(f).entry
        err == IF require_admin(admin) # "" THEN require_admin(admin)
               ELSE IF validate_exe_path(entry.exe_path) # ""
                 THEN validate_exe_path(entry.exe_path)
               ELSE validate_icon_path(entry.icon)
    IN Begin(t, "add", entry, err,
             IF dry_run THEN <<>>
             ELSE add_entry_steps(entry, Targets(entry.scopes, entry.extensions)))

\* remove_entry up to its first winreg operation
BeginRemove(t) ==
  \E f \in ConcRemoves :
    LET entry == MenuEntry(f).entry
    IN Begin(t, "remove", entry, require_admin(admin),
             IF dry_run THEN <<>>
             ELSE remove_entry_steps(entry.key_name, Targets(entry.scopes, entry.extensions)))

\* caller t performs the next winreg operation of its call; an exception
\* that is not caught ends the call
Exec(t) ==
  /\ thr[t].st = "running"
  /\ LET step == Head(thr[t].todo)
         o == RegOp(reg, step, thr[t].lost)
         deleted == step.fn = "DeleteKey" /\ step.path \in DOMAIN reg
                    /\ step.path \notin DOMAIN o.reg
     IN /\ reg' = o.reg
        /\ thr' = [u \in Workers |->
             IF u = t
             THEN [thr[t] EXCEPT
                     !.todo = Tail(@), !.done = Append(@, step), !.err = o.err,
                     !.lost = IF step.fn = "CreateKeyEx" THEN FALSE ELSE @,
                     !.st = IF o.err # "" THEN "raised"
                            ELSE IF Tail(thr[t].todo) = <<>> THEN "returned" ELSE "running"]
             ELSE IF deleted /\ HandleOf(thr[u]) = step.path
             THEN [thr[u] EXCEPT !.lost = TRUE]
             ELSE thr[u]]
  /\ UNCHANGED <<admin, dry_run, pre, last, reps, calls, gui>>

NextConcurrent == \E t \in Workers : BeginAdd(t) \/ BeginRemove(t) \/ Exec(t)

InitConcurrent == Init /\ ~dry_run

SpecConcurrent == InitConcurrent /\ [][NextConcurrent]_vars

--------------------------------------------------------------------------
(* gui.py: the window opens on a loading page, the server is started on a  *)
(* thread of its own, and the launcher polls it before it navigates.       *)
(* Time is counted in ticks of 50 ms.                                      *)

\* timeout: float = 10.0
TIMEOUT == 200
\* urllib.request.urlopen(url, timeout=1)
PROBE_TIMEOUT == 20
\* time.sleep(0.15), which may oversleep
SLEEP == 3
Oversleep == 1

NotAdminWarning == "WARNING: Not running as Administrator"
NotReady == "Server did not become ready within 10s timeout"
ServerCrash == "SERVER CRASH"

\* launch(): the warning, then the window on the loading page
Launch ==
  /\ gui.pc = "launch"
  /\ gui' = [gui EXCEPT !.pc = "boot", !.url = "loading",
                        !.log = IF admin THEN @ ELSE @ \cup {NotAdminWarning}]

\* _boot_server_then_navigate: server_thread.start(), then the first line
\* of _wait_for_server
StartThread ==
  /\ gui.pc = "boot"
  /\ gui' = [gui EXCEPT !.pc = "while", !.srv = "starting",
                        !.deadline = gui.now + TIMEOUT]

\* mutant: the loop never looks at the deadline
LoopTest_NoDeadline ==
  /\ gui.pc = "while"
  /\ gui' = [gui EXCEPT !.pc = "urlopen"]

\* while time.monotonic() < deadline: ... return False
LoopTest ==
  /\ gui.pc = "while"
  /\ gui' = IF gui.now < gui.deadline
            THEN [gui EXCEPT !.pc = "urlopen"]
            ELSE [gui EXCEPT !.pc = "returned", !.ready = FALSE]

\* urlopen(url, timeout=1): answered by a listening server, return True;
\* or refused, timed out or answered with an error after at most the
\* timeout, and the loop goes to sleep
Probe ==
  /\ gui.pc = "urlopen"
  /\ \E took \in 0..PROBE_TIMEOUT, answered \in BOOLEAN :
       /\ answered => gui.srv = "listening"
       /\ gui' = IF answered
                 THEN [gui EXCEPT !.now = @ + took, !.hit = TRUE,
                                  !.pc = "returned", !.ready = TRUE]
                 ELSE [gui EXCEPT !.now = @ + took, !.pc = "sleep"]

\* time.sleep(0.15)
Sleep ==
  /\ gui.pc = "sleep"
  /\ \E took \in SLEEP..(SLEEP + Oversleep) :
       gui' = [gui EXCEPT !.now = @ + took, !.pc = "while"]

\* if ready: window.load_url(_URL) else: _log_crash(...)
Navigate ==
  /\ gui.pc = "returned"
  /\ gui' = IF gui.ready
            THEN [gui EXCEPT !.pc = "done", !.url = "server"]
            ELSE [gui EXCEPT !.pc = "done", !.log = @ \cup {NotReady}]

\* _run_server: start_server() binds the port and serves
ServerListens ==
  /\ gui.srv = "starting"
  /\ gui' = [gui EXCEPT !.srv = "listening"]

\* _run_server: start_server() raises (the port is taken), logged
ServerCrashes ==
  /\ gui.srv = "starting"
  /\ gui' = [gui EXCEPT !.srv = "crashed", !.log = @ \cup {ServerCrash}]

Launcher == Launch \/ StartThread \/ LoopTest \/ Probe \/ Sleep \/ Navigate

NextGui ==
  /\ Launcher \/ ServerListens \/ ServerCrashes
  /\ UNCHANGED <<reg, admin, dry_run, pre, last, reps, calls, thr>>

InitGui == Init /\ reg = RegBare /\ ~dry_run

\* the launcher thread keeps running: urlopen returns within its timeout,
\* sleep returns; nothing makes the server thread come up
SpecGui == InitGui /\ [][NextGui]_vars /\ WF_vars(Launcher /\ NextGui)

--------------------------------------------------------------------------
(* Properties *)

Count(seq, x) == Cardinality({i \in DOMAIN seq : seq[i] = x})
List(r, scope) == list_entries(r, scope, None).list
ListExt(r, ext) == list_entries(r, EXTENSION, ext).list
LastTargets == Targets(last.entry.scopes, last.entry.extensions)
KeyPath(t) == Join(t.root, last.entry.key_name)
CmdPath(t) == Join(KeyPath(t), "command")
ReachedStore == last.handed # <<>>
RealAdd == last.op = "add" /\ last.res = "ok" /\ ~dry_run
RealRemove == last.op = "remove" /\ last.res = "ok" /\ ~dry_run

\* C1: after one or more successful non-dry-run Add(d), List(s) holds
\* d.key_name exactly once for every non-Extension scope s of d, and a
\* repeated Add(d) leaves the registry as the first Add(d) left it.
C1_AddIdempotent ==
  RealAdd =>
    /\ \A i \in DOMAIN last.entry.scopes :
         last.entry.scopes[i] # EXTENSION =>
           Count(List(reg, last.entry.scopes[i]), last.entry.key_name) = 1
    /\ (reps >= 2 => reg = pre)

\* C2: a successful non-dry-run Remove(d) leaves d.key_name in no List of
\* d's scopes (and extensions), and a second Remove(d) raises nothing and
\* changes nothing.
C2_RemoveThenAbsent ==
  /\ RealRemove =>
       \A i \in DOMAIN LastTargets :
         LET root == LastTargets[i].root
         IN ~SeqContains(IF root \in DOMAIN reg THEN EnumKeys(reg, root) ELSE <<>>,
                         last.entry.key_name)
  /\ (last.op = "remove" /\ reps >= 2 /\ ~dry_run) => (last.res = "ok" /\ reg = pre)

C2_Witness ==
  /\ last.op = "remove" /\ last.res = "ok" /\ ~dry_run /\ reps = 2
  /\ last.entry.key_name = "App"
  /\ last.entry.scopes = <<ALL_FILES, EXTENSION>>
  /\ ~SeqContains(List(reg, ALL_FILES), "App")
  /\ ~SeqContains(ListExt(reg, TXT), "App")
  /\ HKCR \o <<".txt", "shell">> \in DOMAIN reg

\* C3: without elevation Add and Remove fail with PermissionError before
\* any path validation or registry access; the registry is unchanged.
C3_NoElevationNoAccess ==
  (~admin /\ last.op \in {"add", "remove"} /\ ReachedStore) =>
    (last.res = "PermissionError" /\ reg = pre)

C3_Witness ==
  /\ ~admin /\ ~dry_run /\ ReachedStore
  /\ last.op = "add" /\ last.entry.exe_path = GoneExe
  /\ last.res = "PermissionError" /\ reg = pre

\* C4: without elevation every mutating operation, ForceClassic and
\* RestoreModern included, raises PermissionError and changes nothing.
C4_EveryMutationElevated ==
  (~admin /\ ~dry_run /\ last.op \in {"add", "remove", "force", "restore"}
     /\ (last.op \in {"add", "remove"} => ReachedStore)) =>
    (last.res = "PermissionError" /\ reg = pre)

\* C5: a dry-run manager changes no registry key or value: List,
\* ReadDetails and IsClassicForced answer after each call as before it.
C5_DryRunFrame ==
  dry_run =>
    /\ reg = pre
    /\ \A s \in TargetScope \ {EXTENSION} :
         /\ List(reg, s) = List(pre, s)
         /\ \A k \in KeyNames : read_entry_details(reg, s, k) = read_entry_details(pre, s, k)
    /\ \A e \in Extensions : ListExt(reg, e) = ListExt(pre, e)
    /\ is_classic_menu_forced(reg) = is_classic_menu_forced(pre)

C5_Witness ==
  /\ dry_run /\ admin /\ last.op = "add" /\ last.res = "ok"
  /\ last.entry.key_name = "App" /\ last.entry.scopes = <<ALL_FILES>>
  /\ ~SeqContains(List(reg, ALL_FILES), "App")

\* C6 as claimed: whatever of the entry key and its command child exists,
\* an elevated non-dry-run Remove raises nothing and leaves neither.
C6_RemoveAnyState ==
  (last.op = "remove" /\ ~dry_run /\ admin /\ ReachedStore) =>
    /\ last.res = "ok"
    /\ \A i \in DOMAIN LastTargets :
         KeyPath(LastTargets[i]) \notin DOMAIN reg /\ CmdPath(LastTargets[i]) \notin DOMAIN reg

\* the entry keys of the last descriptor had no subkey but command, and
\* command had none; neither was system-owned
OnlyCommandBelow ==
  \A i \in DOMAIN LastTargets :
    /\ Subkeys(pre, KeyPath(LastTargets[i])) \subseteq {CmdPath(LastTargets[i])}
    /\ Subkeys(pre, CmdPath(LastTargets[i])) = {}
    /\ \A p \in {KeyPath(LastTargets[i]), CmdPath(LastTargets[i])} \cap DOMAIN pre :
         pre[p].own = "user"

\* C6 amended: the same, for entry keys that hold no subkey other than
\* their command child and that the process may delete.
C6_RemovePartial ==
  (last.op = "remove" /\ ~dry_run /\ admin /\ ReachedStore /\ OnlyCommandBelow) =>
    /\ last.res = "ok"
    /\ \A i \in DOMAIN LastTargets :
         KeyPath(LastTargets[i]) \notin DOMAIN reg /\ CmdPath(LastTargets[i]) \notin DOMAIN reg

\* an entry key without command child was removed, next to an absent one
C6_Witness ==
  /\ last.op = "remove" /\ last.res = "ok" /\ ~dry_run /\ OnlyCommandBelow
  /\ last.entry.key_name = "App" /\ last.entry.scopes = <<DIRECTORY, DIR_BACKGROUND>>
  /\ _SCOPE_ROOTS(DIRECTORY) \o <<"App">> \in DOMAIN pre
  /\ _SCOPE_ROOTS(DIRECTORY) \o <<"App", "command">> \notin DOMAIN pre
  /\ _SCOPE_ROOTS(DIR_BACKGROUND) \o <<"App">> \notin DOMAIN pre
  /\ _SCOPE_ROOTS(DIRECTORY) \o <<"App">> \notin DOMAIN reg

\* C10: a successful non-dry-run Add with Extension scope lists key_name
\* under every extension of the descriptor and adds it under no other.
C10_ExtensionFanOut ==
  (RealAdd /\ SeqContains(last.entry.scopes, EXTENSION)) =>
    /\ \A i \in DOMAIN last.entry.extensions :
         SeqContains(ListExt(reg, last.entry.extensions[i]), last.entry.key_name)
    /\ \A e \in Extensions :
         (~SeqContains(last.entry.extensions, e)
            /\ SeqContains(ListExt(reg, e), last.entry.key_name))
           => SeqContains(ListExt(pre, e), last.entry.key_name)

\* the entry key of the last descriptor under non-Extension scope s
ScopeKey(s) == Join(_SCOPE_ROOTS(s), last.entry.key_name)

\* C11: after a successful non-dry-run Add(d) on a registry that lacked the
\* key, ReadDetails(s, d.key_name) gives, for every non-Extension scope s of
\* d, d's display name, d's icon (None when d has none) and d's command
\* rendered with %1 for all files and %V for the two directory scopes.
C11_AddReadRoundTrip ==
  RealAdd =>
    \A i \in DOMAIN last.entry.scopes :
      LET s == last.entry.scopes[i]
          got == read_entry_details(reg, s, last.entry.key_name)
      IN (s # EXTENSION /\ ScopeKey(s) \notin DOMAIN pre) =>
           /\ got.found
           /\ got.display_name = last.entry.display_name
           /\ got.icon = last.entry.icon
           /\ got.command = build_command(last.entry, IF s = ALL_FILES THEN "%1" ELSE "%V")

\* a custom template with an icon, read back under Directory background
C11_Witness ==
  /\ RealAdd /\ last.entry.key_name = "App"
  /\ last.entry.scopes = <<DIRECTORY, DIR_BACKGROUND>>
  /\ ScopeKey(DIR_BACKGROUND) \notin DOMAIN pre
  /\ last.entry.icon = FooExe \o <<",", "0">>
  /\ read_entry_details(reg, DIR_BACKGROUND, "App").command
       = <<QUOTE>> \o FooExe \o <<QUOTE, " ", QUOTE, "%V", QUOTE>>
  /\ read_entry_details(reg, DIR_BACKGROUND, "App").icon = FooExe \o <<",", "0">>

\* what Add(entry) alone leaves at an entry key that did not exist
FreshKey(entry) ==
  [dflt |-> entry.display_name,
   icon |-> IF Truthy(entry.icon) THEN entry.icon ELSE NoValue,
   own |-> "user"]

\* C12: when a successful non-dry-run Add(d2) follows a successful Add(d1)
\* with the same key_name and scopes, the entry under every path is the
\* one Add(d2) alone writes: display name, Icon value (or none) and
\* command are d2's, nothing of d1 remains.
C12_SecondAddOverwrites ==
  [][(/\ last.op = "add" /\ last.res = "ok" /\ ~dry_run
      /\ last'.op = "add" /\ last'.res = "ok"
      /\ last'.entry.key_name = last.entry.key_name
      /\ last'.entry.key_name # ""
      /\ last'.entry.scopes = last.entry.scopes
      /\ last'.entry.extensions = last.entry.extensions)
     => LET d2 == last'.entry
            ts == Targets(d2.scopes, d2.extensions)
        IN \A i \in DOMAIN ts :
             /\ reg'[Join(ts[i].root, d2.key_name)] = FreshKey(d2)
             /\ reg'[Join(Join(ts[i].root, d2.key_name), "command")].dflt
                  = build_command(d2, ts[i].ph)]_vars

\* an icon string without its trailing ",<index>" suffix, when it has one
IconIndexes == {"0", "1", "2", "3"}
IconFile(icon) ==
  IF Len(icon) >= 2 /\ icon[Len(icon) - 1] = "," /\ icon[Len(icon)] \in IconIndexes
  THEN SubSeq(icon, 1, Len(icon) - 2) ELSE icon
IsFile(path) == Resolve(path) \in Files

\* C13: an elevated Add whose executable, or whose icon file (the icon
\* string without a trailing comma-index suffix), is not an existing
\* regular file fails with FileNotFoundError and leaves the registry
\* unchanged; with icon None a successful Add writes no Icon value.
C13_MissingFileRejected ==
  (last.op = "add" /\ admin /\ ReachedStore) =>
    /\ (\/ ~IsFile(last.entry.exe_path)
        \/ (last.entry.icon # None /\ ~IsFile(IconFile(last.entry.icon))))
         => (last.res = "FileNotFoundError" /\ reg = pre)
    /\ (last.entry.icon = None /\ last.res = "ok" /\ ~dry_run) =>
         \A i \in DOMAIN LastTargets :
           reg[KeyPath(LastTargets[i])].icon =
             IF KeyPath(LastTargets[i]) \in DOMAIN pre
             THEN pre[KeyPath(LastTargets[i])].icon ELSE NoValue

\* the shell subtree List(scope, extension) enumerates
ShellRoot(scope, extension) ==
  CASE scope = ALL_FILES -> <<"HKCR", "*", "shell">>
    [] scope = DIRECTORY -> <<"HKCR", "Directory", "shell">>
    [] scope = DIR_BACKGROUND -> <<"HKCR", "Directory", "Background", "shell">>
    [] scope = EXTENSION -> <<"HKCR", ExtName(extension), "shell">>

\* C14: in every registry, List(scope, extension) raises exactly when the
\* scope is Extension and no extension is given, and returns the empty
\* sequence whenever the scope's shell subtree does not exist.
C14_ListAbsentIsEmpty ==
  \A scope \in TargetScope, extension \in Extensions \cup {None, <<"md">>} :
    LET l == list_entries(reg, scope, extension)
    IN /\ l.err # "" <=> (scope = EXTENSION /\ extension = None)
       /\ (l.err = "" /\ ShellRoot(scope, extension) \notin DOMAIN reg) => l.list = <<>>

\* .txt\shell holds an entry while Directory\shell and .md\shell are absent
C14_Witness ==
  /\ calls > 0
  /\ SeqContains(ListExt(reg, TXT), "App")
  /\ ShellRoot(DIRECTORY, None) \notin DOMAIN reg
  /\ list_entries(reg, DIRECTORY, None) = [err |-> "", list |-> <<>>]
  /\ ShellRoot(EXTENSION, MD) \notin DOMAIN reg
  /\ list_entries(reg, EXTENSION, MD) = [err |-> "", list |-> <<>>]

\* C15: in every registry and for each of the four scopes, ReadDetails
\* answers "not found" exactly when no key of that name exists under the
\* scope's path, and for an existing key a record whose icon is None when
\* the key has no Icon value.
C15_ReadDetailsIffKeyExists ==
  /\ \A scope \in TargetScope \ {EXTENSION}, k \in {"App", "Tool", "Foo"} :
       LET got == read_entry_details(reg, scope, k)
           key_path == Append(ShellRoot(scope, None), k)
       IN /\ got.found <=> key_path \in DOMAIN reg
          /\ SeqContains(List(reg, scope), k) => got.found
          /\ (got.found /\ reg[key_path].icon = NoValue) => got.icon = None
  /\ \A extension \in Extensions, k \in {"App", "Tool", "Foo"} :
       SeqContains(ListExt(reg, extension), k) => read_entry_details(reg, EXTENSION, k).found

\* C16: IsClassicForced is false whenever the flag key is absent, true
\* right after a successful non-dry-run ForceClassic and false right after
\* a successful non-dry-run RestoreModern, whatever calls came before.
C16_ForcedFollowsFlag ==
  /\ _WIN11_CLSID \notin DOMAIN reg => ~is_classic_menu_forced(reg)
  /\ (last.op = "force" /\ last.res = "ok" /\ ~dry_run) => is_classic_menu_forced(reg)
  /\ (last.op = "restore" /\ last.res = "ok" /\ ~dry_run) => ~is_classic_menu_forced(reg)

\* forced, restored, forced again over a flag key that named a DLL
C16_Witness ==
  /\ last.op = "force" /\ last.res = "ok" /\ ~dry_run /\ calls = 3
  /\ ~is_classic_menu_forced(pre) /\ _WIN11_CLSID \notin DOMAIN pre
  /\ is_classic_menu_forced(reg)
  /\ _WIN11_PARENT \o <<"ShellFolder">> \in DOMAIN reg

\* C17: a non-dry-run RestoreModern raises nothing; without a flag key it
\* changes nothing; with one it deletes the flag key and then the parent
\* CLSID key if and only if the flag key was its only child, leaving a
\* parent with other children, and every other key, as it was.
C17_RestoreModern ==
  (last.op = "restore" /\ ~dry_run) =>
    /\ last.res = "ok"
    /\ _WIN11_CLSID \notin DOMAIN pre => reg = pre
    /\ _WIN11_CLSID \in DOMAIN pre =>
         /\ _WIN11_CLSID \notin DOMAIN reg
         /\ _WIN11_PARENT \in DOMAIN reg <=> Subkeys(pre, _WIN11_PARENT) # {_WIN11_CLSID}
         /\ \A p \in DOMAIN pre \ {_WIN11_CLSID, _WIN11_PARENT} :
              p \in DOMAIN reg /\ reg[p] = pre[p]
         /\ DOMAIN reg \subseteq DOMAIN pre

\* the flag key is gone, the parent stays with its other child
C17_Witness ==
  /\ last.op = "restore" /\ last.res = "ok" /\ ~dry_run
  /\ is_classic_menu_forced(pre)
  /\ _WIN11_CLSID \notin DOMAIN reg
  /\ _WIN11_PARENT \in DOMAIN reg
  /\ _WIN11_PARENT \o <<"ShellFolder">> \in DOMAIN reg

\* the last request ended with a successful add_entry of last.entry
AddReported ==
  /\ last.res = "ok" /\ last.handed # <<>>
  /\ last.handed[Len(last.handed)] = Handed("add_entry", last.entry)

\* C18: whenever a non-dry-run Add returns without error, key_name is
\* registered, with its command subkey, under at least one scope path of
\* the descriptor.
C18_AddNeverNoOp ==
  (AddReported /\ ~dry_run) =>
    \E i \in DOMAIN LastTargets :
      /\ Append(LastTargets[i].root, last.entry.key_name) \in DOMAIN reg
      /\ Append(LastTargets[i].root, last.entry.key_name) \o <<"command">> \in DOMAIN reg

\* the entry of caller w had, when the call began, no subkey under its
\* entry keys but command, and command had none
OnlyCommandAt(w) ==
  LET ts == Targets(w.entry.scopes, w.entry.extensions)
  IN \A i \in DOMAIN ts :
       LET key_path == Join(ts[i].root, w.entry.key_name)
       IN /\ Subkeys(w.pre, key_path) \subseteq {Append(key_path, "command")}
          /\ Subkeys(w.pre, Append(key_path, "command")) = {}

\* the calls on the same key_name and scopes that ran while w's call ran
Rivals(w) ==
  {o \in w.with : o.key_name = w.entry.key_name /\ o.scopes = w.entry.scopes}

\* C19 as claimed: an elevated Add or Remove that ran concurrently with
\* another Add or Remove on the same key_name and scopes never raises.
C19_ConcurrentNeverRaises ==
  \A t \in Workers :
    (admin /\ Rivals(thr[t]) # {} /\ OnlyCommandAt(thr[t])) => thr[t].st # "raised"

\* C19 amended: two Adds, or two Removes, on the same key_name and scopes
\* never raise under any interleaving; a call raises only when a call of
\* the other kind on its key_name and scopes ran concurrently.
C19_OnlyMixedRacesRaise ==
  \A t \in Workers :
    (admin /\ OnlyCommandAt(thr[t]) /\ thr[t].st = "raised") =>
      \E o \in Rivals(thr[t]) : o.op # thr[t].op

\* two Removes of one entry interleaved: both found the entry key when
\* they began, one deleted it, the other skipped it, and both returned
C19_Witness ==
  /\ admin
  /\ \A t \in Workers :
       /\ thr[t].op = "remove" /\ thr[t].st = "returned"
       /\ thr[t].entry.key_name = "App"
       /\ thr[t].entry.scopes = <<DIRECTORY, DIR_BACKGROUND>>
       /\ Rivals(thr[t]) # {}
       /\ ShellRoot(DIRECTORY, None) \o <<"App">> \in DOMAIN thr[t].pre
  /\ ShellRoot(DIRECTORY, None) \o <<"App">> \notin DOMAIN reg

\* position of the DeleteKey of path p among the operations of call w
\* (0 when there is none)
DeletePos(w, p) ==
  LET ops == w.done \o w.todo
      at == {i \in DOMAIN ops : ops[i].fn = "DeleteKey" /\ ops[i].path = p}
  IN IF at = {} THEN 0 ELSE CHOOSE i \in at : \A j \in at : i <= j

\* C20: in a Remove that no other call overlaps, for every scope path the
\* DeleteKey of the command child comes before the DeleteKey of the entry
\* key; when the entry had no child but command, the entry key has no
\* subkey at the moment its deletion is next; and the registry never holds
\* a key without its parent.
C20_CommandDeletedFirst ==
  /\ \A t \in Workers :
       (thr[t].op = "remove" /\ thr[t].st = "running" /\ thr[t].with = {}) =>
         LET ts == Targets(thr[t].entry.scopes, thr[t].entry.extensions)
         IN \A i \in DOMAIN ts :
              LET key_path == Append(ts[i].root, thr[t].entry.key_name)
                  cmd_path == Append(key_path, "command")
              IN /\ DeletePos(thr[t], cmd_path) > 0
                 /\ DeletePos(thr[t], cmd_path) < DeletePos(thr[t], key_path)
                 /\ (OnlyCommandAt(thr[t]) /\ Head(thr[t].todo).path = key_path)
                      => Subkeys(reg, key_path) = {}
  /\ \A p \in DOMAIN reg : Len(p) > 1 => SubSeq(p, 1, Len(p) - 1) \in DOMAIN reg

\* a Remove alone, between its two deletions: command is gone, the entry
\* key is next
C20_Witness ==
  \E t \in Workers :
    /\ thr[t].op = "remove" /\ thr[t].st = "running" /\ thr[t].with = {}
    /\ thr[t].entry.key_name = "App" /\ thr[t].entry.scopes = <<ALL_FILES>>
    /\ ShellRoot(ALL_FILES, None) \o <<"App", "command">> \in DOMAIN thr[t].pre
    /\ ShellRoot(ALL_FILES, None) \o <<"App", "command">> \notin DOMAIN reg
    /\ ShellRoot(ALL_FILES, None) \o <<"App">> \in DOMAIN reg
    /\ Head(thr[t].todo).path = ShellRoot(ALL_FILES, None) \o <<"App">>

\* an Add of caller t and a Remove of caller u on the same key_name and
\* scopes ran concurrently, each overlapping no other call, and have both
\* ended
RaceOver(t, u) ==
  /\ admin /\ thr[t].op = "add" /\ thr[u].op = "remove"
  /\ thr[t].st \in {"returned", "raised"} /\ thr[u].st \in {"returned", "raised"}
  /\ thr[t].with = {Overlap(thr[u].id, "remove", thr[u].entry)}
  /\ thr[u].with = {Overlap(thr[t].id, "add", thr[t].entry)}
  /\ Rivals(thr[t]) # {}
  /\ OnlyCommandAt(thr[u])

\* C21 as claimed: after a concurrent Add and Remove of one entry the
\* entry is, under every scope path, fully present (display name and
\* command) or fully absent.
C21_LastWriteWins ==
  \A t, u \in Workers :
    RaceOver(t, u) =>
      LET d == thr[t].entry
          ts == Targets(d.scopes, d.extensions)
      IN \A i \in DOMAIN ts :
           LET key_path == Append(ts[i].root, d.key_name)
               cmd_path == Append(key_path, "command")
           IN \/ key_path \notin DOMAIN reg /\ cmd_path \notin DOMAIN reg
              \/ /\ key_path \in DOMAIN reg /\ reg[key_path].dflt = d.display_name
                 /\ cmd_path \in DOMAIN reg
                 /\ reg[cmd_path].dflt = build_command(d, ts[i].ph)

\* C21 amended: after a concurrent Add and Remove of one entry the entry
\* is, under every scope path, absent, or present with its command, the
\* entry key carrying either the display name or no value at all; an entry
\* key without command subkey never remains.
C21_RaceOutcomes ==
  \A t, u \in Workers :
    RaceOver(t, u) =>
      LET d == thr[t].entry
          ts == Targets(d.scopes, d.extensions)
      IN \A i \in DOMAIN ts :
           LET key_path == Append(ts[i].root, d.key_name)
               cmd_path == Append(key_path, "command")
           IN \/ key_path \notin DOMAIN reg /\ cmd_path \notin DOMAIN reg
              \/ /\ key_path \in DOMAIN reg
                 /\ reg[key_path].dflt = d.display_name \/ reg[key_path] = NoValues
                 /\ cmd_path \in DOMAIN reg
                 /\ reg[cmd_path].dflt = build_command(d, ts[i].ph)

\* both calls returned; the entry key has a command and no display name,
\* and lacks the Icon value of the descriptor
C21_Witness ==
  \E t, u \in Workers :
    /\ RaceOver(t, u) /\ thr[t].st = "returned" /\ thr[u].st = "returned"
    /\ thr[t].entry.scopes = <<ALL_FILES>> /\ thr[t].entry.icon # None
    /\ ShellRoot(ALL_FILES, None) \o <<"App", "command">> \in DOMAIN reg
    /\ reg[ShellRoot(ALL_FILES, None) \o <<"App">>] = NoValues
    /\ reg[ShellRoot(ALL_FILES, None) \o <<"App", "command">>].dflt
         = build_command(thr[t].entry, "%1")

\* every shell subtree of the model: the three fixed ones and one per
\* extension
ShellRoots ==
  {ShellRoot(scope, None) : scope \in TargetScope \ {EXTENSION}}
  \cup {ShellRoot(EXTENSION, e) : e \in Extensions}

\* the key p, before and after the last call, is the same
SameKey(p) == p \in DOMAIN pre /\ p \in DOMAIN reg /\ reg[p] = pre[p]

\* p is the key named key_name under shell subtree root, or its command child
EntryKeyOf(p, root, key_name) ==
  \/ p = Append(root, key_name)
  \/ p = Append(root, key_name) \o <<"command">>

\* C22: Add and Remove of d change, under the shell subtrees, only the
\* keys <path>\<d.key_name> and their command children for the scopes and
\* extensions d names: a key of the same name under another scope, and
\* every key of another name, stays as it was.
C22_OnlyNamedEntryTouched ==
  (last.op \in {"add", "remove"}) =>
    \A root \in ShellRoots :
      \A p \in {q \in DOMAIN pre \cup DOMAIN reg : IsPrefix(root, q) /\ Len(q) > Len(root)} :
        \/ SameKey(p)
        \/ /\ \E i \in DOMAIN LastTargets : LastTargets[i].root = root
           /\ EntryKeyOf(p, root, last.entry.key_name)

\* the entry of the last descriptor under target t is as Add writes it
Written(t) ==
  /\ KeyPath(t) \in DOMAIN reg /\ reg[KeyPath(t)].dflt = last.entry.display_name
  /\ CmdPath(t) \in DOMAIN reg /\ reg[CmdPath(t)].dflt = build_command(last.entry, t.ph)

\* the entry key and command key under target t are as before the call
Untouched(t) ==
  \A p \in {KeyPath(t), CmdPath(t)} :
    SameKey(p) \/ (p \notin DOMAIN pre /\ p \notin DOMAIN reg)

\* C23: when a non-dry-run, elevated Add or Remove fails with an OS error
\* at its k-th scope path, the error reaches the caller, the paths before
\* k stay written (Add) or deleted (Remove), and the paths after k are as
\* they were before the call.
C23_NoRollback ==
  (last.op \in {"add", "remove"} /\ admin /\ ~dry_run /\ ReachedStore
     /\ last.res \notin {"ok", "FileNotFoundError"}) =>
    /\ last.res = "PermissionError"
    /\ \E k \in DOMAIN LastTargets :
         /\ \A j \in 1..(k - 1) :
              IF last.op = "add" THEN Written(LastTargets[j])
              ELSE KeyPath(LastTargets[j]) \notin DOMAIN reg
                   /\ CmdPath(LastTargets[j]) \notin DOMAIN reg
         /\ \A j \in (k + 1)..Len(LastTargets) : Untouched(LastTargets[j])
         /\ ~(last.op = "add" /\ Written(LastTargets[k]))
         /\ last.op = "remove" => KeyPath(LastTargets[k]) \in DOMAIN reg

\* an Add over three scopes failed at the second: the first is written,
\* the third was never reached
C23_Witness ==
  /\ last.op = "add" /\ last.res = "PermissionError" /\ admin /\ ~dry_run
  /\ last.entry.key_name = "cmd" /\ last.entry.scopes = ThreeScopes
  /\ ShellRoot(DIRECTORY, None) \o <<"cmd">> \notin DOMAIN pre
  /\ ShellRoot(DIRECTORY, None) \o <<"cmd", "command">> \in DOMAIN reg
  /\ reg[ShellRoot(DIR_BACKGROUND, None) \o <<"cmd">>] = pre[ShellRoot(DIR_BACKGROUND, None) \o <<"cmd">>]
  /\ ShellRoot(ALL_FILES, None) \o <<"cmd">> \notin DOMAIN reg

\* the names some non-extension scope lists, and where a name is first seen:
\* the first scope that lists it, and its place in that scope's list
Listed(r) ==
  {k \in {NameOrder[i] : i \in DOMAIN NameOrder} :
     \E i \in DOMAIN NonExtScopes : SeqContains(List(r, NonExtScopes[i]), k)}
FirstSeen(r, k) ==
  LET s == CHOOSE i \in DOMAIN NonExtScopes :
             /\ SeqContains(List(r, NonExtScopes[i]), k)
             /\ \A j \in 1..(i - 1) : ~SeqContains(List(r, NonExtScopes[j]), k)
      names == List(r, NonExtScopes[s])
  IN <<s, CHOOSE i \in DOMAIN names : names[i] = k>>
Earlier(a, b) == a[1] < b[1] \/ (a[1] = b[1] /\ a[2] < b[2])

\* rows is the union by key name of the three Lists of r
UnionByName(r, rows, tag(_)) ==
  /\ \A k \in Listed(r) : Cardinality({i \in DOMAIN rows : rows[i].key_name = k}) = 1
  /\ \A i \in DOMAIN rows : rows[i].key_name \in Listed(r)
  /\ \A i, j \in DOMAIN rows :
       i < j => Earlier(FirstSeen(r, rows[i].key_name), FirstSeen(r, rows[j].key_name))
  /\ \A i \in DOMAIN rows : \A s \in TargetScope :
       (\E n \in DOMAIN rows[i].scopes : rows[i].scopes[n] = tag(s))
         <=> (s # EXTENSION /\ SeqContains(List(r, s), rows[i].key_name))

PickedRemove == last.op \in {"console_remove", "http_remove"} /\ last.res = "ok"

C24_Witness ==
  /\ last.op = "http_list"
  /\ SeqContains(List(reg, DIRECTORY), "App")
  /\ SeqContains(List(reg, DIR_BACKGROUND), "App")
  /\ SeqContains(List(reg, DIR_BACKGROUND), "cmd")
  /\ Len(_handle_list_entries(reg)) = 3
  /\ _handle_list_entries(reg)[2].key_name = "App"
  /\ _handle_list_entries(reg)[2].scopes = <<"directory", "dir_background">>

Returned == gui.pc \in {"returned", "done"}
C25_BoundedWait ==
  /\ <>Returned
  /\ <>(gui.pc = "done")
  /\ [](gui.hit => (Returned /\ gui.ready))
  /\ []((Returned /\ ~gui.hit) => (~gui.ready /\ gui.now >= gui.deadline))
  /\ [](Returned => gui.now < gui.deadline + PROBE_TIMEOUT + SLEEP + Oversleep)
  /\ []((gui.pc = "done" /\ ~gui.ready) => (NotReady \in gui.log /\ gui.url = "loading"))
  /\ [](gui.url = "server" => (gui.ready /\ gui.hit))
  /\ [](NotReady \in gui.log => ~gui.ready)

\* the server thread crashed, every probe failed, the wait gave up after
\* the timeout and the window stayed on the loading page
C25_Witness ==
  /\ gui.pc = "done" /\ ~gui.ready /\ ~gui.hit
  /\ gui.srv = "crashed"
  /\ gui.now >= gui.deadline /\ gui.deadline = TIMEOUT
  /\ NotReady \in gui.log /\ gui.url = "loading"

\* C26: a dry-run Add or Remove without elevation raises PermissionError,
\* and an elevated dry-run Add whose executable or icon file does not exist
\* raises FileNotFoundError; either way no "would create / would delete"
\* line is logged and the registry is unchanged.  An elevated Remove of a
\* descriptor whose executable does not exist succeeds (dry-run, or the
\* keys being deletable).
C26_DryRunChecksFirst ==
  LET logged == dry_run_log(last.op, dry_run, admin, last.entry)
      missing == \/ ~IsFile(last.entry.exe_path)
                 \/ (last.entry.icon # None /\ ~IsFile(IconFile(last.entry.icon)))
  IN (last.op \in {"add", "remove"} /\ ReachedStore) =>
       /\ (dry_run /\ ~admin) =>
            (last.res = "PermissionError" /\ logged = <<>> /\ reg = pre)
       /\ (dry_run /\ admin /\ last.op = "add" /\ missing) =>
            (last.res = "FileNotFoundError" /\ logged = <<>> /\ reg = pre)
       /\ (last.op = "remove" /\ admin /\ ~IsFile(last.entry.exe_path)
             /\ (dry_run \/ OnlyCommandBelow)) => last.res = "ok"

\* an edit whose removal of the old entry went through, and such an edit
\* that ended with an error all the same
EditOp == last.op \in {"console_edit", "http_edit"}
EditKey == last.handed[1].entry.key_name
RemovedOld ==
  /\ EditOp /\ last.handed # <<>>
  /\ remove_entry(pre, dry_run, admin, last.handed[1].entry).err = ""
ReAddFailed == RemovedOld /\ last.res # "ok"
ListedUnder(r, s, k) == SeqContains(List(r, s), k)

\* C27 as claimed: whenever the re-add of an edit fails, the key name is
\* listed under no non-extension scope afterwards.
C27_EditFailsAbsent ==
  ReAddFailed => \A s \in TargetScope \ {EXTENSION} : ~ListedUnder(reg, s, EditKey)

\* C27 amended: an edit removes the old entry before it builds and adds the
\* new one and never restores it.  When the re-add fails, the key name is
\* listed under no non-extension scope, unless an OS error stopped the
\* re-add after it had written some scopes: then the name is listed only
\* under new scopes that come before another one in the request.
C27_EditNoRollback ==
  ReAddFailed =>
    /\ last.res \in {"ValueError", "KeyError", "FileNotFoundError"} =>
         \A s \in TargetScope \ {EXTENSION} : ~ListedUnder(reg, s, EditKey)
    /\ \A s \in TargetScope \ {EXTENSION} :
         ListedUnder(reg, s, EditKey) =>
           /\ last.res = "PermissionError"
           /\ Len(last.handed) = 2
           /\ \E i \in 1..(Len(last.handed[2].entry.scopes) - 1) :
                last.handed[2].entry.scopes[i] = s
    /\ \A s \in TargetScope \ {EXTENSION} :
         (ListedUnder(pre, s, EditKey) /\ ListedUnder(reg, s, EditKey)) =>
           SeqContains(last.handed[2].entry.scopes, s)

\* App, registered under one scope, was edited over HTTP with an executable
\* that does not exist: the request failed and App is listed nowhere
C27_Witness ==
  /\ ReAddFailed /\ last.op = "http_edit" /\ last.res = "FileNotFoundError"
  /\ EditKey = "App"
  /\ \E s \in TargetScope \ {EXTENSION} : ListedUnder(pre, s, "App")
  /\ \A s \in TargetScope \ {EXTENSION} : ~ListedUnder(reg, s, "App")

\* a command with the scope's placeholder token blanked out
Neutral(cmd) ==
  IF cmd = None THEN None
  ELSE [i \in DOMAIN cmd |-> IF cmd[i] \in {"%1", "%V"} THEN "%" ELSE cmd[i]]

\* an edit that went through, the scopes it asked for, and what ReadDetails
\* answered for the entry before it
EditDone == EditOp /\ last.res = "ok" /\ Len(last.handed) = 2
Before == read_entry_details(pre, last.handed[1].entry.scopes[1], EditKey)

\* C28: after a successful edit the key name is listed under exactly the
\* requested non-extension scopes, and under each of them ReadDetails
\* answers the display name, the icon and, but for the placeholder, the
\* command the entry had before the edit, whatever template it was written
\* from.
C28_EditPreservesContent ==
  EditDone =>
    \A s \in TargetScope \ {EXTENSION} :
      /\ ListedUnder(reg, s, EditKey) <=> SeqContains(last.entry.scopes, s)
      /\ SeqContains(last.entry.scopes, s) =>
           LET after == read_entry_details(reg, s, EditKey)
           IN /\ after.found
              /\ after.display_name = Before.display_name
              /\ after.icon = Before.icon
              /\ Neutral(after.command) = Neutral(Before.command)

\* the keys below some <ext>\shell
ExtensionKeys(r) ==
  {p \in DOMAIN r : \E e \in Extensions : Len(p) > 3 /\ IsPrefix(ExtRoot(e), p)}
OnlyUnderExtensions(r, k) ==
  /\ \E e \in Extensions : Join(ExtRoot(e), k) \in DOMAIN r
  /\ \A s \in TargetScope \ {EXTENSION} : ~ListedUnder(r, s, k)

C7_ValidationBeforeStore ==
  /\ \A i \in DOMAIN last.built :
       SeqContains(last.built[i].scopes, EXTENSION) => last.built[i].extensions # <<>>
  /\ last.res = "ValueError" => (last.handed = <<>> /\ reg = pre)

\* C8: no descriptor a caller constructs or hands to the Entry Store has
\* an empty scopes list.
C8_ScopesNonEmpty ==
  /\ \A i \in DOMAIN last.built : last.built[i].scopes # <<>>
  /\ \A i \in DOMAIN last.handed : last.handed[i].entry.scopes # <<>>

\* C9: no descriptor is constructed, and Add and Remove are never
\* executed, with an empty key_name.
C9_KeyNameNonEmpty ==
  /\ \A i \in DOMAIN last.built : last.built[i].key_name # ""
  /\ \A i \in DOMAIN last.handed : last.handed[i].entry.key_name # ""

====
